---- MODULE Spec2Model ----
(***************************************************************************)
(* A model of the three command-line tools of the repository:              *)
(*   gauthor.py  author-contribution analyzer                              *)
(*   gcommit.py  commit-message generator                                  *)
(*   gcmd.py     natural-language-to-shell-command generator               *)
(*                                                                         *)
(* A Python str is a sequence of text items (Str).  An item is a piece of  *)
(* text that the code never looks inside, or one of the separators the     *)
(* code splits on: the blank line "\n\n" and the "diff --git" header.      *)
(* len, split and join work on these sequences the way the Python          *)
(* functions work on the text.  An Optional value is None (<<>>) or        *)
(* Some(v) (<<v>>).                                                        *)
(***************************************************************************)
EXTENDS Integers, Sequences, FiniteSets

VARIABLES
    tool,            \* which executable runs: "gauthor", "gcommit", "gcmd"
    pc,              \* position of the run
    api_key,         \* GROQ_API_KEY: "unset", "empty" or "set"
    client,          \* the module-level Groq client: "none" or "built"
    args,            \* parsed command line flags
    commit_log,      \* gauthor main: Optional[str] returned by get_author_commits
    stdout,          \* gcommit: result.stdout.strip() of git diff / git show
    diff,            \* gcommit: Optional[str] returned by process_diff
    chunks,          \* chunk_commits / chunk_diff result being iterated
    idx,             \* loop index into chunks (1-based)
    analyses,        \* gauthor main: list of per-chunk analyses
    summaries,       \* gcommit process_diff: list of chunk summaries
    merged_summary,  \* gauthor main: Optional result of merge_analyses
    commit_hashes,   \* gcommit last-ten: git show output still to process, per hash
    commit_message,  \* gcommit main: Optional[str]
    command,         \* gcmd main: Optional[str]
    temp_file,       \* gcommit edit_message: "none", "exists", "deleted"
    trace,           \* externally visible events of the run, in order
    fn, arg, res     \* a direct call of one function: its name, argument, result

vars == <<tool, pc, api_key, client, args, commit_log, stdout, diff, chunks, idx,
          analyses, summaries, merged_summary, commit_hashes, commit_message,
          command, temp_file, trace, fn, arg, res>>

runVars == <<tool, pc, api_key, client, args, commit_log, stdout, diff, chunks, idx,
             analyses, summaries, merged_summary, commit_hashes, commit_message,
             command, temp_file, trace>>

callVars == <<fn, arg, res>>

(***************************************************************************)
(* Bounds of the model.                                                    *)
(***************************************************************************)
\* longest commit log, in units, enumerated exhaustively for a direct call
MaxUnits == 3
\* a long log holds MAX_COMMITS_PER_CHUNK - 1 .. MAX_COMMITS_PER_CHUNK + MaxRunExtra
\* copies of one small unit, between an optional first and an optional last unit
MaxRunExtra == 1
\* longest commit log, in units, that git log returns in a run of gauthor
MaxLogUnits == 2
\* most files in one diff
MaxFiles == 2
\* longest list of analyses given to merge_analyses directly
MaxAnalyses == 2
\* most commits listed by git log in the last-ten mode (the code asks for 10)
MaxHashes == 2

(***************************************************************************)
(* Program constants.                                                      *)
(***************************************************************************)
MAX_COMMITS_PER_CHUNK == 50
MAX_TOKENS_PER_CHUNK == 8000
\* chunk_diff's max_chunk_size default, and process_diff's threshold
max_chunk_size == 4000

None == <<>>
Some(v) == <<v>>

(***************************************************************************)
(* Text.                                                                   *)
(***************************************************************************)
\* "\n\n", the separator of commit_log.split / "\n\n".join
BlankLine == "\n\n"
\* the "diff --git" header at the start of a line, the separator of re.split
DiffGit == "diff --git"
\* " ", the separator of " ".join
Space == " "

\* commit entries of a git log: two short ones, one of 16002 characters
\* (4000 estimated tokens) and one of 32004 characters (8001 estimated tokens)
CommitTexts == {"commit_a", "commit_b", "commit_half", "commit_huge"}

\* per-file bodies of a diff (what follows "diff --git"): textual hunks of
\* several sizes, a pure rename, a rename with edits, a binary change
TextBodies == {"text_1", "text_2", "text_L", "text_XL"}
RenameBodies == {"rename_pure", "rename_edit"}
BinaryBodies == {"binary"}
FileBodies == TextBodies \cup RenameBodies \cup BinaryBodies
\* the bodies that hold textual hunks
HunkBodies == TextBodies \cup {"rename_edit"}

\* the number of characters of an item
ItemLen(t) ==
    CASE t = BlankLine -> 2
      [] t = DiffGit -> 10
      [] t = Space -> 1
      [] t = "commit_a" -> 3
      [] t = "commit_b" -> 5
      [] t = "commit_half" -> 16002
      [] t = "commit_huge" -> 32004
      [] t = "text_1" -> 100
      [] t = "text_2" -> 120
      [] t = "text_L" -> 2500
      [] t = "text_XL" -> 4500
      [] t = "rename_pure" -> 80
      [] t = "rename_edit" -> 300
      [] t = "binary" -> 90
      [] t = "# file renamed from rename_pure" -> 40
      [] t = "# file renamed from rename_edit" -> 40
      [] t = "# binary file changed: binary" -> 45
      [] OTHER -> 20

RECURSIVE len(_)
\* Python len(s)
len(s) ==
    IF s = <<>> THEN 0
    ELSE IF Len(s) = 1 THEN ItemLen(s[1])
    ELSE LET h == Len(s) \div 2
         IN  len(SubSeq(s, 1, h)) + len(SubSeq(s, h + 1, Len(s)))

\* Python s.split(sep), and re.split(r"^sep", s, flags=re.MULTILINE): the pieces
\* of s between the separators, the separators dropped; "" splits into [""]
split(s, sep) ==
    LET seps == {k \in 1..Len(s) : s[k] = sep}
        n == Cardinality(seps)
        at(j) == IF j = 0 THEN 0
                 ELSE IF j = n + 1 THEN Len(s) + 1
                 ELSE CHOOSE k \in seps : Cardinality({m \in seps : m <= k}) = j
    IN  [j \in 1..(n + 1) |-> SubSeq(s, at(j - 1) + 1, at(j) - 1)]

RECURSIVE join(_, _)
\* Python sep.join(parts); "".join(parts) is join(<<>>, parts) with no separator
join(sep, parts) ==
    IF parts = <<>> THEN <<>>
    ELSE IF Len(parts) = 1 THEN parts[1]
    ELSE LET h == Len(parts) \div 2
         IN  join(sep, SubSeq(parts, 1, h)) \o sep
             \o join(sep, SubSeq(parts, h + 1, Len(parts)))

\* Python "".join(parts)
concat(parts) == join(<<>>, parts)

\* Python s.strip() is empty: none of the items above is whitespace only
IsBlank(s) == s = <<>>

(***************************************************************************)
(* gauthor.py                                                              *)
(***************************************************************************)
\* line 61: rough estimate of tokens (1 token is about 4 chars)
commit_size(commit) == len(commit) \div 4

\* line 63: adding this commit would exceed the token budget
ExceedsTokens(current_chunk_size, size) ==
    current_chunk_size + size > MAX_TOKENS_PER_CHUNK

\* line 71 with > for >=
ChunkFull_Strict(current_chunk) == Len(current_chunk) > MAX_COMMITS_PER_CHUNK

\* line 71: the current chunk reached the commit limit
ChunkFull(current_chunk) == Len(current_chunk) >= MAX_COMMITS_PER_CHUNK

\* lines 63-69: close the current chunk and open one with this commit, or
\* append the commit to the current chunk
PlaceCommit(st, commit) ==
    IF ExceedsTokens(st.current_chunk_size, commit_size(commit))
    THEN [chunks |-> Append(st.chunks, join(<<BlankLine>>, st.current_chunk)),
          current_chunk |-> <<commit>>,
          current_chunk_size |-> commit_size(commit)]
    ELSE [chunks |-> st.chunks,
          current_chunk |-> Append(st.current_chunk, commit),
          current_chunk_size |-> st.current_chunk_size + commit_size(commit)]

\* lines 71-74: close a chunk that reached the commit limit
CloseFull(st) ==
    IF ChunkFull(st.current_chunk)
    THEN [chunks |-> Append(st.chunks, join(<<BlankLine>>, st.current_chunk)),
          current_chunk |-> <<>>,
          current_chunk_size |-> 0]
    ELSE st

RECURSIVE ChunkCommitsLoop(_, _)
\* lines 59-74: the loop over the commits, in order, from state st (the first
\* half of the commits, then the second half from the state the first left)
ChunkCommitsLoop(commits, st) ==
    IF commits = <<>> THEN st
    ELSE IF Len(commits) = 1 THEN CloseFull(PlaceCommit(st, commits[1]))
    ELSE LET h == Len(commits) \div 2
             mid == ChunkCommitsLoop(SubSeq(commits, 1, h), st)
         IN  IF mid.current_chunk_size >= 0  \* mid is computed first
             THEN ChunkCommitsLoop(SubSeq(commits, h + 1, Len(commits)), mid)
             ELSE mid

\* lines 49-79
chunk_commits(log) ==
    IF log = <<>> THEN <<>>
    ELSE LET commits == split(log, BlankLine)
             st == ChunkCommitsLoop(commits,
                       [chunks |-> <<>>, current_chunk |-> <<>>,
                        current_chunk_size |-> 0])
         IN  IF st.current_chunk # <<>>
             THEN Append(st.chunks, join(<<BlankLine>>, st.current_chunk))
             ELSE st.chunks

ListKeys == <<"features", "technologies", "technical_skills", "notable_achievements">>

\* lines 130-137: what analyze_commit_chunk returns when the call or the
\* parsing of its response raised
ErrorAnalysis ==
    [summary |-> <<"Unable to analyze contributions due to an error.">>,
     features |-> <<>>,
     technologies |-> <<>>,
     code_quality |-> <<"No code quality analysis available.">>,
     technical_skills |-> <<>>,
     notable_achievements |-> <<>>]

\* lines 143-150: what merge_analyses returns for an empty list
NoContributions ==
    [summary |-> <<"No contributions found.">>,
     features |-> <<>>,
     technologies |-> <<>>,
     code_quality |-> <<"No code quality analysis available.">>,
     technical_skills |-> <<>>,
     notable_achievements |-> <<>>]

\* Python a.get(key, ""): an analysis is a JSON object, a function from the keys
\* it holds; a list key it holds with a value that is no list counts as absent
get(a, key) == IF key \in DOMAIN a THEN a[key] ELSE <<>>

RECURSIVE Texts(_, _)
\* lines 163 and 174-176: [a.get(key, "") for a in analyses if a.get(key)]
Texts(list, key) ==
    IF list = <<>> THEN <<>>
    ELSE (IF get(Head(list), key) # <<>> THEN <<get(Head(list), key)>> ELSE <<>>)
         \o Texts(Tail(list), key)

RECURSIVE Extended(_, _)
\* lines 169-171: merged[key].extend(analysis[key]) over the analyses in order
Extended(list, key) ==
    IF list = <<>> THEN <<>>
    ELSE get(Head(list), key) \o Extended(Tail(list), key)

RECURSIVE fromkeys_KeepLast(_)
\* line 183 keeping the last occurrence of an entry instead of the first
fromkeys_KeepLast(list) ==
    IF list = <<>> THEN <<>>
    ELSE LET init == SubSeq(list, 1, Len(list) - 1)
             last == list[Len(list)]
         IN  fromkeys_KeepLast(SelectSeq(init, LAMBDA x : x # last)) \o <<last>>

RECURSIVE fromkeys(_)
\* line 183: list(dict.fromkeys(list)), the entries in first-seen order
fromkeys(list) ==
    IF list = <<>> THEN <<>>
    ELSE <<Head(list)>> \o fromkeys(SelectSeq(Tail(list), LAMBDA x : x # Head(list)))

\* lines 163-165 and 174-178: the non-empty texts joined by one space
JoinedTexts(list, key) == join(<<Space>>, Texts(list, key))

\* lines 140-185
merge_analyses(list) ==
    IF list = <<>> THEN NoContributions
    ELSE [summary |-> JoinedTexts(list, "summary"),
          features |-> fromkeys(Extended(list, "features")),
          technologies |-> fromkeys(Extended(list, "technologies")),
          code_quality |-> JoinedTexts(list, "code_quality"),
          technical_skills |-> fromkeys(Extended(list, "technical_skills")),
          notable_achievements |-> fromkeys(Extended(list, "notable_achievements"))]

(***************************************************************************)
(* Replies of the LLM provider to client.chat.completions.create.          *)
(*   [kind |-> "api_error"]   the call raises                              *)
(*   [kind |-> "no_content"]  choices[0].message.content is None           *)
(*   [kind |-> "content"]     content is the text in field content         *)
(*   [kind |-> "json"]        content holds the JSON object in field object*)
(***************************************************************************)
Reply(kind, content, object) == [kind |-> kind, content |-> content, object |-> object]
ApiError == Reply("api_error", <<>>, <<>>)
NoContent == Reply("no_content", <<>>, <<>>)
Content(text) == Reply("content", text, <<>>)
Json(object) == Reply("json", <<"{...}">>, object)

\* how a function that calls the LLM ends: its return value, the diagnostic it
\* printed (None when it printed nothing), and whether an exception left it
Ended(ret, printed, raised) == [ret |-> ret, printed |-> printed, raised |-> raised]
Returned(ret, printed) == Ended(ret, printed, FALSE)

\* lines 110-137: the parsed JSON object of the reply; an API error, a reply
\* without content (response.find raises) and a reply that holds no JSON
\* object (json.loads raises) are caught, printed and replaced by ErrorAnalysis
analyze_commit_chunk(reply) ==
    IF reply.kind = "json" THEN Returned(reply.object, None)
    ELSE Returned(ErrorAnalysis, Some("Error analyzing commits with Groq"))

\* one section of the report: its title and its entries, when there are any
Section(title, entries) ==
    IF entries = <<>> THEN <<>> ELSE <<title>> \o entries

\* lines 188-231
format_summary(summary) ==
    <<"Detailed Contribution Analysis", "Summary:">> \o get(summary, "summary")
    \o Section("Implemented Features:", get(summary, "features"))
    \o Section("Technologies & Libraries:", get(summary, "technologies"))
    \o Section("Code Quality & Architecture:", get(summary, "code_quality"))
    \o Section("Technical Skills Demonstrated:", get(summary, "technical_skills"))
    \o Section("Notable Achievements:", get(summary, "notable_achievements"))

\* lines 257-274: the reply's content as it is (None included); an API error is
\* caught, printed and replaced by the formatted summary
generate_final_analysis(summary, reply) ==
    CASE reply.kind = "api_error" ->
            Returned(Some(format_summary(summary)),
                     Some("Error generating final analysis with Groq"))
      [] reply.kind = "no_content" -> Returned(None, None)
      [] OTHER -> Returned(Some(reply.content), None)

(***************************************************************************)
(* gcommit.py                                                              *)
(***************************************************************************)
\* the first item of a piece that is in set S, as an Optional
RECURSIVE search(_, _)
search(file_diff, S) ==
    IF file_diff = <<>> THEN None
    ELSE IF Head(file_diff) \in S THEN Some(Head(file_diff))
    ELSE search(Tail(file_diff), S)

\* lines 36-38: the marker line naming the old and the new path
RenameMarker(body) ==
    IF body = "rename_pure" THEN "# file renamed from rename_pure"
    ELSE "# file renamed from rename_edit"

\* lines 46-48
BinaryMarker(body) == "# binary file changed: binary"

\* lines 33-35: the file holds a "rename from" and a "rename to" line
IsRename(file_diff) == search(file_diff, RenameBodies) # None

\* lines 29-51: what one piece adds to optimized_diffs
optimize_one(file_diff) ==
    IF IsBlank(file_diff) THEN <<>>
    ELSE IF IsRename(file_diff)
         THEN << <<RenameMarker(search(file_diff, RenameBodies)[1])>> >>
    ELSE IF search(file_diff, BinaryBodies) # None
         THEN << <<BinaryMarker(search(file_diff, BinaryBodies)[1])>> >>
    ELSE <<file_diff>>

RECURSIVE optimized_diffs(_)
\* lines 26-51: the loop over the pieces
optimized_diffs(file_diffs) ==
    IF file_diffs = <<>> THEN <<>>
    ELSE optimize_one(Head(file_diffs)) \o optimized_diffs(Tail(file_diffs))

\* lines 19-53
optimize_diff(d) ==
    IF d = <<>> THEN <<>>
    ELSE concat(optimized_diffs(split(d, DiffGit)))

\* line 72: adding this file would exceed the chunk size
StartsNewChunk(st, file_diff) ==
    /\ st.current_size + len(file_diff) > max_chunk_size
    /\ st.current_chunk # <<>>

\* lines 67-78: one pass of the loop
PlaceFile(st, file_diff) ==
    IF IsBlank(file_diff) THEN st
    ELSE LET s1 == IF StartsNewChunk(st, file_diff)
                   THEN [chunks |-> Append(st.chunks, concat(st.current_chunk)),
                         current_chunk |-> <<>>,
                         current_size |-> 0]
                   ELSE st
         IN  [chunks |-> s1.chunks,
              current_chunk |-> Append(s1.current_chunk, file_diff),
              current_size |-> s1.current_size + len(file_diff)]

RECURSIVE ChunkDiffLoop(_, _)
ChunkDiffLoop(file_diffs, st) ==
    IF file_diffs = <<>> THEN st
    ELSE ChunkDiffLoop(Tail(file_diffs), PlaceFile(st, Head(file_diffs)))

\* lines 56-84
chunk_diff(d) ==
    IF d = <<>> THEN <<>>
    ELSE LET st == ChunkDiffLoop(split(d, DiffGit),
                       [chunks |-> <<>>, current_chunk |-> <<>>, current_size |-> 0])
         IN  IF st.current_chunk # <<>>
             THEN Append(st.chunks, concat(st.current_chunk))
             ELSE st.chunks

\* lines 89-110: the reply's content; an API error and a reply without
\* content (None.strip() raises) are caught, printed and replaced by None
summarize_diff_chunk(reply) ==
    IF reply.kind = "content" THEN Returned(Some(reply.content), None)
    ELSE Returned(None, Some("Error summarizing diff chunk"))

\* lines 204-212: parentheses before the colon removed, white space collapsed,
\* the text cut at the first full stop
CleanMessage(content) ==
    CASE content = <<"fix(parser): update y">> -> <<"fix: update y">>
      [] content = <<"feat: add x. it also does z">> -> <<"feat: add x">>
      [] content = <<". oops">> -> <<>>
      [] OTHER -> content

\* lines 160-217 with the text of the exception returned as the message
generate_commit_message_ReturnsError(d, reply) ==
    IF reply.kind = "content" THEN Returned(Some(CleanMessage(reply.content)), None)
    ELSE Returned(Some(<<"Error generating commit message">>),
                  Some("Error generating commit message"))

\* lines 160-217
generate_commit_message(d, reply) ==
    IF d = None \/ d = Some(<<>>)
    THEN Returned(None, Some("No staged changes to commit."))
    ELSE IF reply.kind = "content"
         THEN Returned(Some(CleanMessage(reply.content)), None)
         ELSE Returned(None, Some("Error generating commit message"))

(***************************************************************************)
(* gcmd.py                                                                 *)
(***************************************************************************)
\* lines 19-43
generate_command(reply) ==
    IF reply.kind = "content" THEN Returned(Some(reply.content), None)
    ELSE Returned(None, Some("Error generating command"))

\* Python confirm.lower()
lower(answer) == IF answer = "Y" THEN "y" ELSE answer

\* line 92 taking everything but "n" for a yes
Confirmed_NotNo(confirm) == lower(confirm) # "n"

\* line 92
Confirmed(confirm) == lower(confirm) = "y"

\* "is not None" taken for truthiness
truthy_NotNone(opt) == opt # None

\* Python truthiness of an Optional[str]: not None and not ""
truthy(opt) == opt # None /\ opt[1] # <<>>

(***************************************************************************)
(* Inputs.                                                                 *)
(***************************************************************************)
\* the sequences over S of length lo..hi
SeqsOf(S, lo, hi) == UNION {[1..n -> S] : n \in lo..hi}

\* the units of a commit log: the commit entries and the empty unit
CommitUnits == {<<>>} \cup {<<t>> : t \in CommitTexts}

\* every commit log of at most MaxUnits units
ShortLogs == {join(<<BlankLine>>, units) : units \in SeqsOf(CommitUnits, 1, MaxUnits)}

\* n copies of one short commit
Run(n) == [k \in 1..n |-> <<"commit_a">>]

\* logs around the commit limit: a run of short commits, with or without a
\* unit before it and a unit after it
LongLogs ==
    {join(<<BlankLine>>, first \o Run(n) \o last) :
        first \in SeqsOf(CommitUnits, 0, 1),
        n \in (MAX_COMMITS_PER_CHUNK - 1)..(MAX_COMMITS_PER_CHUNK + MaxRunExtra),
        last \in SeqsOf(CommitUnits, 0, 1)}

CommitLogs == ShortLogs \cup LongLogs

\* what git log prints in a run of gauthor
GitLogs ==
    {join(<<BlankLine>>, units) :
        units \in SeqsOf({<<>>, <<"commit_a">>, <<"commit_half">>, <<"commit_huge">>},
                         1, MaxLogUnits)}

RECURSIVE RawDiff(_)
\* the text of a diff of the given files: "diff --git" and the file's body, per file
RawDiff(files) ==
    IF files = <<>> THEN <<>>
    ELSE <<DiffGit, Head(files)>> \o RawDiff(Tail(files))

\* what git diff --cached and git show print, stripped
RawDiffs == {RawDiff(files) : files \in SeqsOf(FileBodies, 0, MaxFiles)}

\* what git show prints for the commits of the last-ten mode
ShowDiffs == {<<>>, RawDiff(<<"text_1">>), RawDiff(<<"text_L", "text_L">>)}

\* JSON objects the LLM answers with
Analysis1 ==
    [summary |-> <<"s1">>, features |-> <<"x">>, technologies |-> <<"t1">>,
     code_quality |-> <<"q1">>, technical_skills |-> <<"k1">>,
     notable_achievements |-> <<>>]
Analysis2 ==
    [summary |-> <<"s2">>, features |-> <<"y", "x">>, technologies |-> <<"t1", "t2">>,
     code_quality |-> <<>>, technical_skills |-> <<>>,
     notable_achievements |-> <<"n1">>]
Analysis3 == [features |-> <<"x", "x", "z">>, code_quality |-> <<"q2">>]
AnalysisValues == {Analysis1, Analysis2, Analysis3, ErrorAnalysis}

AnalyzeReplies == {ApiError, NoContent, Content(<<"no json here">>), Json(Analysis1), Json(Analysis2)}
FinalReplies == {ApiError, NoContent, Content(<<>>), Content(<<"final analysis">>)}
SummaryReplies == {ApiError, NoContent, Content(<<>>), Content(<<"summary">>)}
MessageReplies ==
    {ApiError, NoContent, Content(<<>>), Content(<<"feat: add x">>),
     Content(<<"fix(parser): update y">>), Content(<<". oops">>)}
CommandReplies == {ApiError, NoContent, Content(<<>>), Content(<<"ls">>)}
Answers == {"y", "Y", "n", "yes", ""}
EditedMessages == {<<"feat: add x">>, <<"edited">>, <<>>}

(***************************************************************************)
(* Events of a run.                                                        *)
(***************************************************************************)
NoReply == Reply("", <<>>, <<>>)
Ev(ev, what, a, reply) == [ev |-> ev, what |-> what, arg |-> a, reply |-> reply]
Says(msg) == Ev("print", msg, <<>>, NoReply)
Llm(f, a, reply) == Ev("llm", f, a, reply)
Git(cmd) == Ev("git", cmd, <<>>, NoReply)
Sleep == Ev("sleep", "time.sleep(1)", <<>>, NoReply)
Raise(where) == Ev("raise", where, <<>>, NoReply)
\* the diagnostic a function printed and the exception that left it, as events
Diag(r, f) ==
    (IF r.printed = None THEN <<>> ELSE <<Says(r.printed[1])>>)
    \o (IF r.raised THEN <<Raise(f)>> ELSE <<>>)

GuidanceMessage == "Please set your Groq API key as an environment variable GROQ_API_KEY."

(***************************************************************************)
(* A run of one tool.                                                      *)
(***************************************************************************)
NoArgs == [edit |-> FALSE, last_ten |-> FALSE, dry_run |-> FALSE]

\* the locals of a run before main sets them
Idle ==
    /\ client = "none"
    /\ commit_log = None
    /\ stdout = <<>>
    /\ diff = None
    /\ chunks = <<>>
    /\ idx = 0
    /\ analyses = <<>>
    /\ summaries = <<>>
    /\ merged_summary = None
    /\ commit_hashes = <<>>
    /\ commit_message = None
    /\ command = None
    /\ temp_file = "none"
    /\ trace = <<>>

\* the process starts: the environment and the command line are given
Init ==
    /\ tool \in {"gauthor", "gcommit", "gcmd"}
    /\ pc = "import"
    /\ api_key \in {"unset", "empty", "set"}
    /\ args \in [edit : BOOLEAN, last_ten : BOOLEAN, dry_run : BOOLEAN]
    /\ tool = "gauthor" => args = NoArgs
    /\ tool = "gcommit" => ~args.dry_run
    /\ tool = "gcmd" => ~args.edit /\ ~args.last_ten
    /\ Idle
    /\ fn = "none" /\ arg = <<>> /\ res = None

\* gauthor.py:17, gcommit.py:9-11, gcmd.py:7-9: client = Groq(api_key=os.getenv(...)).
\* With the variable unset the key passed is None, and the library, which is
\* not part of the repository, either builds the client or raises.
BuildClient ==
    /\ pc = "import"
    /\ \/ /\ client' = "built"
          /\ trace' = Append(trace, Ev("Groq", "client", <<>>, NoReply))
          /\ pc' = "check_key"
       \/ /\ api_key = "unset"
          /\ client' = client
          /\ trace' = trace \o <<Ev("Groq", "client", <<>>, NoReply), Raise("Groq")>>
          /\ pc' = "crashed"
    /\ UNCHANGED <<tool, api_key, args, commit_log, stdout, diff, chunks, idx, analyses,
                   summaries, merged_summary, commit_hashes, commit_message, command,
                   temp_file>>
    /\ UNCHANGED callVars

\* gauthor.py:19-21, gcommit.py:14-16, gcmd.py:12-16
CheckKey ==
    /\ pc = "check_key"
    /\ IF api_key \in {"unset", "empty"}
       THEN /\ trace' = Append(trace, Says(GuidanceMessage))
            /\ pc' = "exited"
       ELSE /\ trace' = trace
            /\ pc' = "main"
    /\ UNCHANGED <<tool, api_key, client, args, commit_log, stdout, diff, chunks, idx,
                   analyses, summaries, merged_summary, commit_hashes, commit_message,
                   command, temp_file>>
    /\ UNCHANGED callVars

(***************************************************************************)
(* gauthor main                                                            *)
(***************************************************************************)
\* main, lines 287-295, with get_author_commits (24-46): git log, the early
\* return on an empty or failed log, and the chunking
GetAuthorCommits ==
    /\ tool = "gauthor" /\ pc = "main"
    /\ \E r \in {None} \cup {Some(l) : l \in GitLogs} :
         /\ commit_log' = r
         /\ IF ~truthy(r)
            THEN /\ trace' = trace \o <<Git("log")>>
                              \o (IF r = None THEN <<Says("Error getting git log")>> ELSE <<>>)
                              \o <<Says("No commits found for author email")>>
                 /\ chunks' = chunks
                 /\ idx' = idx
                 /\ pc' = "done"
            ELSE /\ trace' = trace \o <<Git("log"), Says("Analyzing chunks of commit history...")>>
                 /\ chunks' = chunk_commits(r[1])
                 /\ idx' = 1
                 /\ pc' = "analyze"
    /\ UNCHANGED <<tool, api_key, client, args, stdout, diff, analyses, summaries,
                   merged_summary, commit_hashes, commit_message, command, temp_file>>
    /\ UNCHANGED callVars

\* lines 302-303: a pause follows every chunk but the last
PauseAfter(i, n) == IF i < n THEN <<Sleep>> ELSE <<>>

\* main, lines 298-303: one pass of the loop over the chunks
AnalyzeChunk ==
    /\ tool = "gauthor" /\ pc = "analyze" /\ idx <= Len(chunks)
    /\ \E reply \in AnalyzeReplies :
         LET r == analyze_commit_chunk(reply)
         IN  /\ analyses' = Append(analyses, r.ret)
             /\ trace' = trace \o <<Says("Processing chunk"),
                                    Llm("analyze_commit_chunk", chunks[idx], reply)>>
                               \o Diag(r, "analyze_commit_chunk")
                               \o (IF r.raised THEN <<>> ELSE PauseAfter(idx, Len(chunks)))
             /\ pc' = IF r.raised THEN "crashed" ELSE pc
    /\ idx' = idx + 1
    /\ UNCHANGED <<tool, api_key, client, args, commit_log, stdout, diff, chunks,
                   summaries, merged_summary, commit_hashes, commit_message, command,
                   temp_file>>
    /\ UNCHANGED callVars

\* main, line 306
MergeAnalyses ==
    /\ tool = "gauthor" /\ pc = "analyze" /\ idx > Len(chunks)
    /\ merged_summary' = Some(merge_analyses(analyses))
    /\ pc' = "final"
    /\ UNCHANGED <<tool, api_key, client, args, commit_log, stdout, diff, chunks, idx,
                   analyses, summaries, commit_hashes, commit_message, command,
                   temp_file, trace>>
    /\ UNCHANGED callVars

\* main, lines 307-308, with generate_final_analysis (234-274)
FinalAnalysis ==
    /\ tool = "gauthor" /\ pc = "final"
    /\ \E reply \in FinalReplies :
         LET r == generate_final_analysis(merged_summary[1], reply)
         IN  /\ trace' = trace
                                \o <<Llm("generate_final_analysis",
                                         format_summary(merged_summary[1]), reply)>>
                                \o Diag(r, "generate_final_analysis")
                                \o (IF r.raised THEN <<>>
                                    ELSE <<Ev("print", "final_analysis",
                                              IF r.ret = None THEN <<"None">> ELSE r.ret[1],
                                              NoReply)>>)
             /\ pc' = IF r.raised THEN "crashed" ELSE "done"
    /\ UNCHANGED <<tool, api_key, client, args, commit_log, stdout, diff, chunks, idx,
                   analyses, summaries, merged_summary, commit_hashes, commit_message,
                   command, temp_file>>
    /\ UNCHANGED callVars

(***************************************************************************)
(* gcommit main                                                            *)
(***************************************************************************)
\* main, line 287, with get_git_diff (134-143) up to the call of process_diff:
\* git diff --cached; a failure to run git is caught and printed
GetGitDiff ==
    /\ tool = "gcommit" /\ pc = "main" /\ ~args.last_ten
    /\ \/ \E d \in RawDiffs :
            /\ stdout' = d
            /\ diff' = diff
            /\ trace' = Append(trace, Git("diff --cached"))
            /\ pc' = "process_diff"
       \/ /\ stdout' = stdout
          /\ diff' = None
          /\ trace' = trace \o <<Git("diff --cached"), Says("Error fetching git diff")>>
          /\ pc' = "processed"
    /\ UNCHANGED <<tool, api_key, client, args, commit_log, chunks, idx, analyses,
                   summaries, merged_summary, commit_hashes, commit_message, command,
                   temp_file>>
    /\ UNCHANGED callVars

\* main, lines 283-285, with get_last_commit_messages (247-253): git log lists
\* the hashes; commit_hashes holds what git show prints for each of them.
\* "".split("\n") is [""]: the list holds at least one entry.
GetLastCommits ==
    /\ tool = "gcommit" /\ pc = "main" /\ args.last_ten
    /\ commit_hashes' \in SeqsOf(ShowDiffs, 1, MaxHashes)
    /\ trace' = Append(trace, Git("log -n 10"))
    /\ pc' = "next_hash"
    /\ UNCHANGED <<tool, api_key, client, args, commit_log, stdout, diff, chunks, idx,
                   analyses, summaries, merged_summary, commit_message, command,
                   temp_file>>
    /\ UNCHANGED callVars

\* get_last_commit_messages, lines 255-256, with get_git_commit_content
\* (146-157) up to the call of process_diff; the loop ends with the list
NextHash ==
    /\ tool = "gcommit" /\ pc = "next_hash"
    /\ IF commit_hashes = <<>>
       THEN /\ pc' = "done"
            /\ UNCHANGED <<stdout, commit_hashes, trace>>
       ELSE /\ stdout' = Head(commit_hashes)
            /\ commit_hashes' = Tail(commit_hashes)
            /\ trace' = Append(trace, Ev("git", "show", Head(commit_hashes), NoReply))
            /\ pc' = "process_diff"
    /\ UNCHANGED <<tool, api_key, client, args, commit_log, diff, chunks, idx, analyses,
                   summaries, merged_summary, commit_message, command, temp_file>>
    /\ UNCHANGED callVars

\* line 122
TooLarge(optimized_diff) == len(optimized_diff) > max_chunk_size

\* process_diff, lines 113-123 and 131
ProcessDiff ==
    /\ tool = "gcommit" /\ pc = "process_diff"
    /\ LET optimized_diff == optimize_diff(stdout)
       IN  IF stdout = <<>>
           THEN /\ diff' = None
                /\ pc' = "processed"
                /\ UNCHANGED <<chunks, idx, summaries>>
           ELSE IF TooLarge(optimized_diff)
           THEN /\ chunks' = chunk_diff(optimized_diff)
                /\ summaries' = <<>>
                /\ idx' = 1
                /\ diff' = diff
                /\ pc' = "summarize"
           ELSE /\ diff' = Some(optimized_diff)
                /\ pc' = "processed"
                /\ UNCHANGED <<chunks, idx, summaries>>
    /\ UNCHANGED <<tool, api_key, client, args, commit_log, stdout, analyses,
                   merged_summary, commit_hashes, commit_message, command, temp_file,
                   trace>>
    /\ UNCHANGED callVars

\* lines 127-128: a summary is kept when it is not None and not empty
Kept(summary) == IF truthy(summary) THEN <<summary[1]>> ELSE <<>>

\* process_diff, lines 125-128: one pass of the loop over the chunks
SummarizeChunk ==
    /\ tool = "gcommit" /\ pc = "summarize" /\ idx <= Len(chunks)
    /\ \E reply \in SummaryReplies :
         LET r == summarize_diff_chunk(reply)
         IN  /\ summaries' = summaries \o Kept(r.ret)
             /\ trace' = trace \o <<Llm("summarize_diff_chunk", chunks[idx], reply)>>
                               \o Diag(r, "summarize_diff_chunk")
             /\ pc' = IF r.raised THEN "crashed" ELSE pc
    /\ idx' = idx + 1
    /\ UNCHANGED <<tool, api_key, client, args, commit_log, stdout, diff, chunks,
                   analyses, merged_summary, commit_hashes, commit_message, command,
                   temp_file>>
    /\ UNCHANGED callVars

\* process_diff, line 129
JoinSummaries ==
    /\ tool = "gcommit" /\ pc = "summarize" /\ idx > Len(chunks)
    /\ diff' = Some(join(<<BlankLine>>, summaries))
    /\ pc' = "processed"
    /\ UNCHANGED <<tool, api_key, client, args, commit_log, stdout, chunks, idx, analyses,
                   summaries, merged_summary, commit_hashes, commit_message, command,
                   temp_file, trace>>
    /\ UNCHANGED callVars

\* main, lines 288-290, and get_last_commit_messages, lines 257-258
CheckDiff ==
    /\ tool = "gcommit" /\ pc = "processed"
    /\ IF truthy(diff)
       THEN /\ pc' = "generate"
            /\ trace' = trace
       ELSE IF args.last_ten
       THEN /\ pc' = "next_hash"
            /\ trace' = trace
       ELSE /\ pc' = "done"
            /\ trace' = Append(trace, Says("No staged changes. Use 'git add' before running gcommit."))
    /\ UNCHANGED <<tool, api_key, client, args, commit_log, stdout, diff, chunks, idx,
                   analyses, summaries, merged_summary, commit_hashes, commit_message,
                   command, temp_file>>
    /\ UNCHANGED callVars

\* main, lines 292-297, and get_last_commit_messages, lines 259-260, with
\* generate_commit_message (160-217)
GenerateCommitMessage ==
    /\ tool = "gcommit" /\ pc = "generate"
    /\ \E reply \in MessageReplies :
         LET r == generate_commit_message(diff, reply)
             called == trace \o <<Llm("generate_commit_message", diff[1], reply)>>
                             \o Diag(r, "generate_commit_message")
         IN  /\ commit_message' = r.ret
             /\ IF r.raised
                THEN /\ trace' = called
                     /\ pc' = "crashed"
                ELSE IF args.last_ten
                THEN /\ trace' = Append(called,
                                     Ev("print", "Commit: generated_message",
                                        IF r.ret = None THEN <<"None">> ELSE r.ret[1], NoReply))
                     /\ pc' = "next_hash"
                ELSE IF ~truthy(r.ret)
                THEN /\ trace' = Append(called, Says("Failed to generate commit message."))
                     /\ pc' = "done"
                ELSE /\ trace' = called
                     /\ pc' = IF args.edit THEN "edit" ELSE "commit"
    /\ UNCHANGED <<tool, api_key, client, args, commit_log, stdout, diff, chunks, idx,
                   analyses, summaries, merged_summary, commit_hashes, command, temp_file>>
    /\ UNCHANGED callVars

\* edit_message, lines 222-227: the temporary file is created and written, the
\* editor is launched; subprocess.run raises when the editor cannot be started
EditLaunch ==
    /\ tool = "gcommit" /\ pc = "edit"
    /\ temp_file' = "exists"
    /\ \/ /\ trace' = Append(trace, Ev("editor", "subprocess.run", commit_message[1], NoReply))
          /\ pc' = "edit_read"
       \/ /\ trace' = trace \o <<Ev("editor", "subprocess.run", commit_message[1], NoReply),
                                 Raise("edit_message")>>
          /\ pc' = "crashed"
    /\ UNCHANGED <<tool, api_key, client, args, commit_log, stdout, diff, chunks, idx,
                   analyses, summaries, merged_summary, commit_hashes, commit_message,
                   command>>
    /\ UNCHANGED callVars

\* edit_message, lines 229-233: the edited text is read and the file is removed
\* by os.unlink; open or read raises when the file the editor left cannot be
\* read, and then line 232 is not reached
EditRead ==
    /\ tool = "gcommit" /\ pc = "edit_read"
    /\ \/ /\ \E edited \in EditedMessages : commit_message' = Some(edited)
          /\ temp_file' = "deleted"
          /\ pc' = "commit"
          /\ UNCHANGED trace
       \/ /\ trace' = Append(trace, Raise("edit_message"))
          /\ pc' = "crashed"
          /\ UNCHANGED <<commit_message, temp_file>>
    /\ UNCHANGED <<tool, api_key, client, args, commit_log, stdout, diff, chunks, idx,
                   analyses, summaries, merged_summary, commit_hashes, command>>
    /\ UNCHANGED callVars

\* main, line 300, with commit_changes (236-243)
CommitChanges ==
    /\ tool = "gcommit" /\ pc = "commit"
    /\ \/ trace' = trace \o <<Ev("git", "commit", commit_message[1], NoReply),
                              Says("Committed with message")>>
       \/ trace' = trace \o <<Ev("git", "commit", commit_message[1], NoReply),
                              Says("Error committing changes")>>
    /\ pc' = "done"
    /\ UNCHANGED <<tool, api_key, client, args, commit_log, stdout, diff, chunks, idx,
                   analyses, summaries, merged_summary, commit_hashes, commit_message,
                   command, temp_file>>
    /\ UNCHANGED callVars

(***************************************************************************)
(* gcmd main                                                               *)
(***************************************************************************)
\* main, lines 80-89, with generate_command (19-43)
GenerateCommand ==
    /\ tool = "gcmd" /\ pc = "main"
    /\ \E reply \in CommandReplies :
         LET r == generate_command(reply)
             called == trace \o <<Llm("generate_command", <<"description">>, reply)>>
                             \o Diag(r, "generate_command")
         IN  /\ command' = r.ret
             /\ IF r.raised
                THEN /\ trace' = called
                     /\ pc' = "crashed"
                ELSE IF ~truthy(r.ret)
                THEN /\ trace' = Append(called, Says("Failed to generate command."))
                     /\ pc' = "done"
                ELSE IF args.dry_run
                THEN /\ trace' = called \o <<Says("Generated command"),
                                             Says("Dry run mode - command not executed.")>>
                     /\ pc' = "done"
                ELSE /\ trace' = Append(called, Says("Generated command"))
                     /\ pc' = "confirm"
    /\ UNCHANGED <<tool, api_key, client, args, commit_log, stdout, diff, chunks, idx,
                   analyses, summaries, merged_summary, commit_hashes, commit_message,
                   temp_file>>
    /\ UNCHANGED callVars

\* main, lines 91-99, with execute_command (46-61): the answer is read; on a
\* yes the command runs and its exit status, or the failure to run it, is reported
ConfirmAndExecute ==
    /\ tool = "gcmd" /\ pc = "confirm"
    /\ \E confirm \in Answers :
         IF Confirmed(confirm)
         THEN \E outcome \in {"Command executed successfully.", "Command execution failed.",
                              "Error executing command"} :
                trace' = trace \o <<Ev("input", confirm, <<>>, NoReply),
                                    Ev("execute_command", "subprocess.run", command[1], NoReply)>>
                               \o (IF outcome = "Error executing command"
                                   THEN <<Says(outcome), Says("Command execution failed.")>>
                                   ELSE <<Says(outcome)>>)
         ELSE trace' = trace \o <<Ev("input", confirm, <<>>, NoReply),
                                  Says("Command execution cancelled.")>>
    /\ pc' = "done"
    /\ UNCHANGED <<tool, api_key, client, args, commit_log, stdout, diff, chunks, idx,
                   analyses, summaries, merged_summary, commit_hashes, commit_message,
                   command, temp_file>>
    /\ UNCHANGED callVars

Next ==
    \/ BuildClient
    \/ CheckKey
    \/ GetAuthorCommits
    \/ AnalyzeChunk
    \/ MergeAnalyses
    \/ FinalAnalysis
    \/ GetGitDiff
    \/ GetLastCommits
    \/ NextHash
    \/ ProcessDiff
    \/ SummarizeChunk
    \/ JoinSummaries
    \/ CheckDiff
    \/ GenerateCommitMessage
    \/ EditLaunch
    \/ EditRead
    \/ CommitChanges
    \/ GenerateCommand
    \/ ConfirmAndExecute

Spec == Init /\ [][Next]_vars

(***************************************************************************)
(* Direct calls of the functions that only compute: one call per behaviour,*)
(* on an argument of the function's input sets.                            *)
(***************************************************************************)
InitCall ==
    /\ \/ fn = "chunk_commits" /\ arg \in CommitLogs
       \/ fn = "chunk_diff" /\ arg \in RawDiffs
       \/ fn = "optimize_diff" /\ arg \in RawDiffs
       \/ fn = "merge_analyses" /\ arg \in SeqsOf(AnalysisValues, 0, MaxAnalyses)
    /\ res = None
    /\ tool = "none" /\ pc = "call" /\ api_key = "set" /\ args = NoArgs
    /\ Idle

\* gauthor.py chunk_commits, lines 49-79
CallChunkCommits ==
    /\ fn = "chunk_commits" /\ res = None
    /\ res' = Some(chunk_commits(arg))
    /\ UNCHANGED <<fn, arg>>
    /\ UNCHANGED runVars

\* gcommit.py chunk_diff, lines 56-84
CallChunkDiff ==
    /\ fn = "chunk_diff" /\ res = None
    /\ res' = Some(chunk_diff(arg))
    /\ UNCHANGED <<fn, arg>>
    /\ UNCHANGED runVars

\* gcommit.py optimize_diff, lines 19-53
CallOptimizeDiff ==
    /\ fn = "optimize_diff" /\ res = None
    /\ res' = Some(optimize_diff(arg))
    /\ UNCHANGED <<fn, arg>>
    /\ UNCHANGED runVars

\* gauthor.py merge_analyses, lines 140-185
CallMergeAnalyses ==
    /\ fn = "merge_analyses" /\ res = None
    /\ res' = Some(merge_analyses(arg))
    /\ UNCHANGED <<fn, arg>>
    /\ UNCHANGED runVars

NextCall ==
    \/ CallChunkCommits
    \/ CallChunkDiff
    \/ CallOptimizeDiff
    \/ CallMergeAnalyses

SpecCall == InitCall /\ [][NextCall]_vars

(***************************************************************************)
(* Properties.                                                             *)
(***************************************************************************)
\* the units of a chunk of a commit log
Units(chunk) == split(chunk, BlankLine)

RECURSIVE SumSizes(_)
SumSizes(units) ==
    IF units = <<>> THEN 0 ELSE (len(Head(units)) \div 4) + SumSizes(Tail(units))

\* a unit that alone exceeds the token budget
OverBudget(unit) == len(unit) \div 4 > MAX_TOKENS_PER_CHUNK

\* a direct call of f has returned
Called(f) == fn = f /\ res # None

\* C1 as stated: every chunk chunk_commits returns holds at most
\* MAX_COMMITS_PER_CHUNK units, and a chunk whose character count divided by 4
\* exceeds MAX_TOKENS_PER_CHUNK is a single unit that alone exceeds the budget.
C1_ChunkCharsWithinBudget ==
    Called("chunk_commits") =>
        \A k \in 1..Len(res[1]) :
            LET chunk == res[1][k]
            IN  /\ Len(Units(chunk)) <= MAX_COMMITS_PER_CHUNK
                /\ len(chunk) \div 4 > MAX_TOKENS_PER_CHUNK
                     => Len(Units(chunk)) = 1 /\ OverBudget(Units(chunk)[1])

\* C1 amended: every chunk chunk_commits returns holds at most
\* MAX_COMMITS_PER_CHUNK units, and a chunk whose units' estimated sizes (each
\* unit's character count integer-divided by 4) sum to more than
\* MAX_TOKENS_PER_CHUNK is a single unit that alone exceeds the budget.
C1_ChunkWithinLimits ==
    Called("chunk_commits") =>
        \A k \in 1..Len(res[1]) :
            LET chunk == res[1][k]
            IN  /\ Len(Units(chunk)) <= MAX_COMMITS_PER_CHUNK
                /\ SumSizes(Units(chunk)) > MAX_TOKENS_PER_CHUNK
                     => Len(Units(chunk)) = 1 /\ OverBudget(Units(chunk)[1])

\* C1 witness: a log was chunked into a chunk closed by the commit limit and a
\* chunk that is one unit over the token budget
C1_Witness ==
    /\ Called("chunk_commits")
    /\ \E k \in 1..Len(res[1]) : Len(Units(res[1][k])) = MAX_COMMITS_PER_CHUNK
    /\ \E k \in 1..Len(res[1]) :
          Len(Units(res[1][k])) = 1 /\ OverBudget(Units(res[1][k])[1])

RECURSIVE AllUnits(_)
\* the units of the chunks, chunk after chunk
AllUnits(cs) == IF cs = <<>> THEN <<>> ELSE Units(Head(cs)) \o AllUnits(Tail(cs))

\* the per-file pieces of a diff: what stands between the "diff --git" headers
FilePieces(d) == SelectSeq(split(d, DiffGit), LAMBDA piece : ~IsBlank(piece))

\* C2: chunking is lossless and order-preserving: the units of the chunks that
\* chunk_commits returns, in chunk order, are the units of the commit log, and
\* the chunks that chunk_diff returns are, in order, the per-file pieces of the
\* diff.
C2_ChunkingLossless ==
    /\ Called("chunk_commits") /\ arg # <<>> =>
          AllUnits(res[1]) = split(arg, BlankLine)
    /\ Called("chunk_diff") =>
          concat(res[1]) = concat(FilePieces(arg))

\* the events of the run that are calls of the LLM function f
IsCall(e, f) == e.ev = "llm" /\ e.what = f

\* C3: every chunk process_diff hands to summarize_diff_chunk is at most
\* max_chunk_size characters long, unless it is a single per-file unit (in an
\* optimized diff each per-file unit is one item) that alone exceeds that size.
C3_SummarizedChunksWithinSize ==
    \A k \in 1..Len(trace) :
        IsCall(trace[k], "summarize_diff_chunk") =>
            \/ len(trace[k].arg) <= max_chunk_size
            \/ Len(trace[k].arg) = 1

\* the items of a text that are file bodies holding textual hunks
Hunks(d) == SelectSeq(d, LAMBDA item : item \in HunkBodies)

\* C4: optimize_diff collapses only pure renames and binary changes: every
\* per-file unit that holds textual hunks, a file renamed and edited included,
\* is in the output with its hunks untouched, in the input order.
C4_HunksUntouched ==
    Called("optimize_diff") => Hunks(res[1]) = Hunks(arg)

RECURSIVE AllEntries(_, _)
\* the entries of the lists under key of the analyses, in chunk order
AllEntries(list, key) ==
    IF list = <<>> THEN <<>>
    ELSE (IF key \in DOMAIN Head(list) THEN Head(list)[key] ELSE <<>>)
         \o AllEntries(Tail(list), key)

\* the position of the first x in list
FirstIndex(list, x) == CHOOSE k \in 1..Len(list) : list[k] = x /\ \A m \in 1..(k - 1) : list[m] # x

\* out holds the distinct entries of list, each once, in first-seen order
FirstSeenOrder(out, list) ==
    /\ {out[k] : k \in 1..Len(out)} = {list[k] : k \in 1..Len(list)}
    /\ \A i, j \in 1..Len(out) :
          i < j => out[i] # out[j] /\ FirstIndex(list, out[i]) < FirstIndex(list, out[j])

\* the texts under key of the analyses that hold a non-empty one, in chunk order
NonEmptyTexts(list, key) ==
    LET has(k) == key \in DOMAIN list[k] /\ list[k][key] # <<>>
        kept == SelectSeq([k \in 1..Len(list) |-> k], has)
    IN  [k \in 1..Len(kept) |-> list[kept[k]][key]]

\* what the claim says merge_analyses returns for the analyses in list
MergedAsClaimed(out, list) ==
    /\ \A k \in 1..Len(ListKeys) : FirstSeenOrder(out[ListKeys[k]], AllEntries(list, ListKeys[k]))
    /\ out.summary = join(<<Space>>, NonEmptyTexts(list, "summary"))
    /\ out.code_quality = join(<<Space>>, NonEmptyTexts(list, "code_quality"))

\* C5 as stated: for any sequence of analyses merge_analyses returns, per list
\* category, the inputs' lists concatenated in chunk order with the later
\* duplicates removed, and as summary and code_quality the non-empty input
\* texts joined by one space in chunk order.
C5_MergedAnySequence ==
    Called("merge_analyses") => MergedAsClaimed(res[1], arg)

\* C5 amended: the same for any non-empty sequence of analyses; for the empty
\* sequence the lists are empty and summary and code_quality are the fixed
\* texts "No contributions found." and "No code quality analysis available.".
C5_MergedNonEmptySequence ==
    Called("merge_analyses") =>
        IF arg # <<>> THEN MergedAsClaimed(res[1], arg)
        ELSE /\ \A k \in 1..Len(ListKeys) : res[1][ListKeys[k]] = <<>>
             /\ res[1].summary = <<"No contributions found.">>
             /\ res[1].code_quality = <<"No code quality analysis available.">>

\* C5 witness: the merge of [{features: [x]}, {features: [y, x]}] gave [x, y]
C5_Witness ==
    /\ Called("merge_analyses")
    /\ arg = <<Analysis1, Analysis2>>
    /\ res[1].features = <<"x", "y">>
    /\ res[1].summary = <<"s1", " ", "s2">>

\* the messages that say there is nothing to do
NothingToDo ==
    {"No commits found for author email",
     "No staged changes. Use 'git add' before running gcommit.",
     "No staged changes to commit."}

Reported(S) == \E k \in 1..Len(trace) : trace[k].ev = "print" /\ trace[k].what \in S
NoLlmCall == \A k \in 1..Len(trace) : trace[k].ev # "llm"
NoGitCommit == \A k \in 1..Len(trace) : ~(trace[k].ev = "git" /\ trace[k].what = "commit")
\* git show printed nothing for the commit of event k
EmptyShow(k) == trace[k].ev = "git" /\ trace[k].what = "show" /\ trace[k].arg = <<>>

\* a finished run of gauthor on an empty commit log
EmptyLogRun == tool = "gauthor" /\ pc = "done" /\ commit_log = Some(<<>>)
\* a finished run of gcommit, normal mode, on an empty staged diff
EmptyDiffRun ==
    /\ tool = "gcommit" /\ ~args.last_ten /\ pc = "done"
    /\ stdout = <<>> /\ diff = None

\* C6 as stated: on an empty diff or commit log gauthor main, gcommit main and
\* the last-ten loop (for a commit with an empty diff) report that there is
\* nothing to do, and end without an LLM call and without git commit.
C6_EmptyInputReported ==
    /\ EmptyLogRun \/ EmptyDiffRun => Reported(NothingToDo) /\ NoLlmCall /\ NoGitCommit
    /\ tool = "gcommit" /\ args.last_ten /\ pc = "done" =>
          /\ NoGitCommit
          /\ \A k \in 1..Len(trace) :
                EmptyShow(k) =>
                    /\ k < Len(trace)
                    /\ trace[k + 1].ev = "print" /\ trace[k + 1].what \in NothingToDo

\* C6 amended: on an empty commit log gauthor main, and on an empty staged diff
\* gcommit main, report that there is nothing to do and end without an LLM call
\* and without git commit; the last-ten loop reports nothing for a commit with
\* an empty diff: it goes on to the next commit without an LLM call for it,
\* and never runs git commit.
C6_EmptyInputNoCall ==
    /\ EmptyLogRun \/ EmptyDiffRun => Reported(NothingToDo) /\ NoLlmCall /\ NoGitCommit
    /\ tool = "gcommit" /\ args.last_ten =>
          /\ NoGitCommit
          /\ \A k \in 1..Len(trace) :
                EmptyShow(k) /\ k < Len(trace) =>
                    trace[k + 1].ev = "git" /\ trace[k + 1].what = "show"
    /\ tool \in {"gauthor", "gcommit"} /\ pc = "main" => NoLlmCall /\ NoGitCommit

\* C6 witness: the last-ten loop ended after a commit with an empty diff and a
\* commit with a diff
C6_Witness ==
    /\ tool = "gcommit" /\ args.last_ten /\ pc = "done"
    /\ \E k \in 1..Len(trace) : EmptyShow(k)
    /\ ~NoLlmCall

\* a reply the function cannot use: the call raised, the reply holds no
\* content, no JSON object where one is expected, or an empty text
Unusable(e) ==
    \/ e.reply.kind \in {"api_error", "no_content"}
    \/ e.what = "analyze_commit_chunk" /\ e.reply.kind # "json"
    \/ e.what # "analyze_commit_chunk" /\ e.reply.kind = "content" /\ e.reply.content = <<>>

\* a reply that raises inside the function's try block: the call raised, or
\* reading the reply did (None has no strip or find, no JSON object parses)
RaisesInside(e) ==
    \/ e.reply.kind = "api_error"
    \/ e.reply.kind = "no_content" /\ e.what # "generate_final_analysis"
    \/ e.what = "analyze_commit_chunk" /\ e.reply.kind # "json"

Diagnostics ==
    {"Error analyzing commits with Groq", "Error generating final analysis with Groq",
     "Error summarizing diff chunk", "Error generating commit message",
     "Error generating command", "Failed to generate commit message.",
     "Failed to generate command."}

\* no exception left an LLM-calling function
NoUnhandledLlmError ==
    \A k \in 1..Len(trace) :
        trace[k].ev = "raise" => trace[k].what \in {"Groq", "edit_message"}

\* the tool's action was not performed on a failed generation
NoActionOnFailure ==
    \A k \in 1..Len(trace) :
        /\ (IsCall(trace[k], "generate_commit_message") /\ ~args.last_ten
            /\ (Unusable(trace[k]) \/ CleanMessage(trace[k].reply.content) = <<>>))
             => NoGitCommit
        /\ (IsCall(trace[k], "generate_command") /\ Unusable(trace[k]))
             => \A m \in 1..Len(trace) : trace[m].ev # "execute_command"

Executions == {k \in 1..Len(trace) : trace[k].ev = "execute_command"}

\* C8: gcmd executes the generated command only after the answer y or Y, only
\* without --dry-run, only when a command was generated, and at most once.
C8_ExecuteOnlyConfirmed ==
    /\ Cardinality(Executions) <= 1
    /\ \A k \in Executions :
          /\ tool = "gcmd" /\ ~args.dry_run
          /\ truthy(command) /\ trace[k].arg = command[1]
          /\ k > 1 /\ trace[k - 1].ev = "input" /\ trace[k - 1].what \in {"y", "Y"}
          /\ \E m \in 1..(k - 1) :
                IsCall(trace[m], "generate_command") /\ ~Unusable(trace[m])

\* C8 witness: the command was executed after the answer Y
C8_Witness ==
    \E k \in Executions : trace[k - 1].what = "Y" /\ pc = "done"

\* C9: with the API key missing the check of the key is the first step: the
\* guidance message is printed and the process exits before the client is
\* constructed and before any git or LLM call.
C9_KeyCheckedFirst ==
    api_key \in {"unset", "empty"} =>
        /\ client = "none"
        /\ \A k \in 1..Len(trace) : trace[k] = Says(GuidanceMessage)

\* the analyses of the chunks whose call succeeded, in chunk order
AnalyzeCalls == SelectSeq(trace, LAMBDA e : IsCall(e, "analyze_commit_chunk"))
SucceededAnalyses ==
    LET ok == SelectSeq([k \in 1..Len(analyses) |-> k],
                        LAMBDA k : AnalyzeCalls[k].reply.kind = "json")
    IN  [k \in 1..Len(ok) |-> analyses[ok[k]]]

SummarizeCalls == SelectSeq(trace, LAMBDA e : IsCall(e, "summarize_diff_chunk"))
SucceededSummaries ==
    LET ok == SelectSeq(SummarizeCalls, LAMBDA e : ~Unusable(e))
    IN  [k \in 1..Len(ok) |-> ok[k].reply.content]

\* C10: in a run of several chunks a failed chunk is skipped: every chunk is
\* still sent, in order, and the combined result (merge_analyses in gauthor,
\* the joined summaries in process_diff) is the one of the successful chunks
\* alone.
C10_FailedChunkSkipped ==
    /\ (tool = "gauthor" /\ pc \in {"final", "done"} /\ Len(chunks) >= 2
        /\ SucceededAnalyses # <<>>) =>
          /\ [k \in 1..Len(AnalyzeCalls) |-> AnalyzeCalls[k].arg] = chunks
          /\ merged_summary = Some(merge_analyses(SucceededAnalyses))
    /\ (tool = "gcommit" /\ ~args.last_ten /\ pc = "processed" /\ chunks # <<>>) =>
          /\ [k \in 1..Len(SummarizeCalls) |-> SummarizeCalls[k].arg] = chunks
          /\ diff = Some(join(<<BlankLine>>, SucceededSummaries))

\* the places of the LLM calls in the trace of the run
LlmCalls == {k \in 1..Len(trace) : trace[k].ev = "llm"}

\* two LLM calls of the run with no other LLM call between them
Consecutive(i, j) == i < j /\ \A k \in LlmCalls : ~(i < k /\ k < j)

\* C11: the LLM calls of a run are sequential and separated by a pause: every
\* call has ended, with a reply or an error, where the next event of the run
\* starts, and between any two consecutive LLM calls (chunk analysis calls and
\* the final consolidation call in gauthor; chunk summary calls and the
\* commit-message call in gcommit) the run sleeps.
C11_PauseBetweenCalls ==
    /\ \A k \in LlmCalls : trace[k].reply # NoReply
    /\ \A i \in LlmCalls : \A j \in LlmCalls :
          Consecutive(i, j) => \E k \in (i + 1)..(j - 1) : trace[k] = Sleep

\* edit_message was entered and has ended, by returning or by an exception
EditMessageEnded == temp_file # "none" /\ pc # "edit_read"

\* C12: the temporary file of edit_message exists only for one edit-and-read
\* sequence: whenever edit_message has ended, by returning or by an exception
\* from launching the editor or from reading the file, the temporary file has
\* been deleted.
C12_TempFileDeleted == EditMessageEnded => temp_file = "deleted"

\* C13: chunk_commits never returns an empty chunk: for every non-empty commit
\* log, one whose first unit alone exceeds the token budget and one where an
\* over-budget unit follows a chunk closed by the commit limit included, every
\* chunk returned holds at least one unit, so no LLM call of a run is made on
\* an empty chunk.
C13_NoEmptyChunk ==
    /\ Called("chunk_commits") /\ arg # <<>> =>
          \A k \in 1..Len(res[1]) : res[1][k] # <<>>
    /\ \A k \in LlmCalls : trace[k].arg # <<>>

====
